---- MODULE Spec2Model ----
(***************************************************************************)
(* The display composable of packages/vuetify/src/composables/display.ts:  *)
(* createDisplay derives breakpoint flags, a breakpoint name and a mobile  *)
(* flag from the window size, and keeps them in step with the window's     *)
(* resize events through two refs (width, height) and one watchEffect.     *)
(*                                                                         *)
(* The host (window, navigator, IN_BROWSER) is the environment.  The       *)
(* effect of watchEffect runs once, synchronously, when it is created and  *)
(* is re-run by the scheduler after one of the refs it read has changed:   *)
(* the re-run is a job of its own (Flush), queued once however many refs   *)
(* changed, and it runs to completion like every callback of the event     *)
(* loop.                                                                   *)
(***************************************************************************)
EXTENDS Integers, Sequences, FiniteSets

\* ---------------------------------------------------------------- bounds

\* Threshold values of the enumerated (grid) options: 0..MaxThreshold.
MaxThreshold == 1

\* Window widths of the enumerated hosts: 0..MaxWidth.
MaxWidth == 2

\* ------------------------------------------------------------ value sets

Breakpoints == {"xs", "sm", "md", "lg"}

\* mobileBreakpoint?: number | DisplayBreakpoint.  A tagged record keeps
\* numbers and keys apart (typeof mobileBreakpoint === 'number').
Num(n) == [type |-> "number", number |-> n, key |-> ""]

Key(k) == [type |-> "key", number |-> 0, key |-> k]

\* A field left out of the options.
Absent == [type |-> "undefined", number |-> 0, key |-> ""]

\* A thresholds override is partial: a function on some of the four keys.
NoThresholds == [k \in {} |-> 0]

\* createDisplay(): no options at all.
NoOptions == [mobileBreakpoint |-> Absent, thresholds |-> NoThresholds]

defaultDisplayOptions ==
  [mobileBreakpoint |-> Key("md"),
   thresholds |-> [xs |-> 600, sm |-> 960, md |-> 1280, lg |-> 1920]]

\* mergeDeep of @/util: a field of the override wins, a field it leaves out
\* keeps the value of the source; thresholds are merged key by key.
mergeDeep(source, override) ==
  [mobileBreakpoint |->
     IF override.mobileBreakpoint.type = "undefined"
     THEN source.mobileBreakpoint
     ELSE override.mobileBreakpoint,
   thresholds |->
     [k \in DOMAIN source.thresholds \cup DOMAIN override.thresholds |->
        IF k \in DOMAIN override.thresholds
        THEN override.thresholds[k]
        ELSE source.thresholds[k]]]

\* const parseDisplayOptions = (options = defaultDisplayOptions) =>
\*   mergeDeep(defaultDisplayOptions, options)
parseDisplayOptions(options) == mergeDeep(defaultDisplayOptions, options)

\* The thresholds of the docs' Options example (its xl key is never read).
DocThresholds == [xs |-> 0, sm |-> 340, md |-> 540, lg |-> 800]

\* Options of the documentation page and of the defaults.
DocOptions ==
  { NoOptions,
    [mobileBreakpoint |-> Num(580), thresholds |-> NoThresholds],
    [mobileBreakpoint |-> Key("sm"), thresholds |-> DocThresholds],
    [mobileBreakpoint |-> Absent, thresholds |-> DocThresholds],
    [mobileBreakpoint |-> Absent, thresholds |-> [k \in {"xs"} |-> 0]] }

\* Window widths the documentation's examples speak of.
DocWidths == {339, 500, 960, 1024, 1500}

\* Every full thresholds record over 0..MaxThreshold, ascending or not:
\* the code validates nothing.
GridThresholds == [Breakpoints -> 0..MaxThreshold]

GridOptions ==
  [mobileBreakpoint : {Key(k) : k \in Breakpoints}
                        \cup {Num(n) : n \in 1..MaxThreshold},
   thresholds : GridThresholds]

GridWidths == 0..MaxWidth

\* Window heights: the height is copied, never compared.
Heights == {0, 1}

\* navigator.userAgent as the sequence of its words; a regular expression
\* of getPlatform is the set of words it matches.
UserAgents ==
  { <<"mozilla", "linux", "chrome">>,
    <<"mozilla", "iphone", "mac">>,
    <<"opera", "win", "ssr">>,
    <<"mozilla", "android", "ssr">> }

\* ------------------------------------------------------------- variables

VARIABLES
  IN_BROWSER,        \* @/util/globals: a window exists
  navigator,         \* the host's identification string (navigator.userAgent)
  window,            \* the host's window: inner and client sizes
  screen,            \* the widths the host's window can take
  thresholds,        \* parsed options
  mobileBreakpoint,  \* parsed options
  height,            \* ref
  width,             \* ref
  platform,          \* getPlatform(), taken once
  state,             \* reactive DisplayInstance
  dirty,             \* the effect is queued for a re-run
  listeners,         \* the window's resize listeners
  disposed,          \* the owner has released the display
  progress           \* how far the display has come: "created", "notified"
                     \* (onResize has run), "recomputed" (a queued effect has run)

vars == <<IN_BROWSER, navigator, window, screen, thresholds, mobileBreakpoint,
          height, width, platform, state, dirty, listeners, disposed, progress>>

\* ------------------------------------------------------------------ host

Max(a, b) == IF a >= b THEN a ELSE b

\* Scrollbar widths: clientWidth is innerWidth less the scrollbar, if one shows.
Scrollbars == {0, 1}

\* The windows a host whose widths are ws can show.
Windows(ws) ==
  UNION { { [innerWidth |-> w, clientWidth |-> c, innerHeight |-> h, clientHeight |-> h] :
              c \in {Max(w - b, 0) : b \in Scrollbars}, h \in Heights } : w \in ws }

\* No window: server-side rendering.
NoWindow == [innerWidth |-> 0, clientWidth |-> 0, innerHeight |-> 0, clientHeight |-> 0]

\* function getClientWidth
getClientWidth(inBrowser, win) ==
  IF inBrowser THEN Max(win.clientWidth, win.innerWidth) ELSE 0

\* function getClientHeight
getClientHeight(inBrowser, win) ==
  IF inBrowser THEN Max(win.clientHeight, win.innerHeight) ELSE 0

\* function match, inside getPlatform: does the regular expression, given as
\* the set of words it matches, occur in the string.
match(userAgent, regexp) == \E i \in DOMAIN userAgent : userAgent[i] \in regexp

\* const userAgent = IN_BROWSER ? window.navigator.userAgent : 'ssr'
platformUserAgent(inBrowser, nav) == IF inBrowser THEN nav ELSE <<"ssr">>

\* function getPlatform (intersection and touch come from @/util/globals and
\* are read by nothing here).
getPlatform(inBrowser, nav) ==
  LET userAgent == platformUserAgent(inBrowser, nav) IN
  [android  |-> match(userAgent, {"android"}),
   ios      |-> match(userAgent, {"iphone", "ipad", "ipod"}),
   cordova  |-> match(userAgent, {"cordova"}),
   electron |-> match(userAgent, {"electron"}),
   chrome   |-> match(userAgent, {"chrome"}),
   edge     |-> match(userAgent, {"edge"}),
   firefox  |-> match(userAgent, {"firefox"}),
   opera    |-> match(userAgent, {"opera"}),
   win      |-> match(userAgent, {"win"}),
   mac      |-> match(userAgent, {"mac"}),
   linux    |-> match(userAgent, {"linux"}),
   ssr      |-> match(userAgent, {"ssr"})]

\* ------------------------------------------------------- the watchEffect

\* const xs = width.value < thresholds.xs
Xs(w, t) == w < t.xs

\* Sm without its cascading negation.
SmNoCascade(w, t) == w < t.sm

\* Sm with its threshold read as a lower bound.
SmLowerBound(w, t) == w >= t.sm /\ ~Xs(w, t)

\* const sm = width.value < thresholds.sm && !xs
Sm(w, t) == w < t.sm /\ ~Xs(w, t)

\* Md compared with the wrong threshold (lg for md).
MdBelowLg(w, t) == w < t.lg /\ ~(Sm(w, t) \/ Xs(w, t))

\* const md = width.value < thresholds.md && !(sm || xs)
Md(w, t) == w < t.md /\ ~(Sm(w, t) \/ Xs(w, t))

\* Lg without its cascading negation.
LgNoCascade(w, t) == w < t.lg

\* const lg = width.value < thresholds.lg && !(md || sm || xs)
Lg(w, t) == w < t.lg /\ ~(Md(w, t) \/ Sm(w, t) \/ Xs(w, t))

\* const xl = width.value >= thresholds.lg
Xl(w, t) == w >= t.lg

\* Name from inclusive comparisons with the thresholds.
NameInclusive(w, t) ==
  IF w <= t.xs THEN "xs"
  ELSE IF w <= t.sm THEN "sm"
  ELSE IF w <= t.md THEN "md"
  ELSE IF w <= t.lg THEN "lg"
  ELSE "xl"

\* const name = xs ? 'xs' : sm ? 'sm' : md ? 'md' : lg ? 'lg' : 'xl'
Name(w, t) ==
  IF Xs(w, t) THEN "xs"
  ELSE IF Sm(w, t) THEN "sm"
  ELSE IF Md(w, t) THEN "md"
  ELSE IF Lg(w, t) THEN "lg"
  ELSE "xl"

\* const breakpointValue = typeof mobileBreakpoint === 'number'
\*   ? mobileBreakpoint : thresholds[mobileBreakpoint]
breakpointValue(mb, t) == IF mb.type = "number" THEN mb.number ELSE t[mb.key]

\* const mobile = !platform.ssr ? width.value < breakpointValue
\*   : platform.android || platform.ios || platform.opera
Mobile(w, mb, t, p) ==
  IF ~p.ssr THEN w < breakpointValue(mb, t)
  ELSE p.android \/ p.ios \/ p.opera

\* smAndDown that forgets xl.
SmAndDownNoXl(w, t) == ~(Md(w, t) \/ Lg(w, t))

\* state.smAndDown = !(md || lg || xl)
SmAndDown(w, t) == ~(Md(w, t) \/ Lg(w, t) \/ Xl(w, t))

\* state.smAndUp = !xs
SmAndUp(w, t) == ~Xs(w, t)

\* state.mdAndDown = !(lg || xl)
MdAndDown(w, t) == ~(Lg(w, t) \/ Xl(w, t))

\* state.mdAndUp = !(xs || sm)
MdAndUp(w, t) == ~(Xs(w, t) \/ Sm(w, t))

\* state.lgAndDown = !xl
LgAndDown(w, t) == ~Xl(w, t)

\* state.lgAndUp = !(xs || sm || md)
LgAndUp(w, t) == ~(Xs(w, t) \/ Sm(w, t) \/ Md(w, t))

\* The assignments state.xs = xs ... state.thresholds = thresholds.
DisplayState(w, h, t, mb, p) ==
  [xs |-> Xs(w, t),
   sm |-> Sm(w, t),
   md |-> Md(w, t),
   lg |-> Lg(w, t),
   xl |-> Xl(w, t),
   smAndDown |-> SmAndDown(w, t),
   smAndUp   |-> SmAndUp(w, t),
   mdAndDown |-> MdAndDown(w, t),
   mdAndUp   |-> MdAndUp(w, t),
   lgAndDown |-> LgAndDown(w, t),
   lgAndUp   |-> LgAndUp(w, t),
   name      |-> Name(w, t),
   height    |-> h,
   width     |-> w,
   mobile    |-> Mobile(w, mb, t, p),
   mobileBreakpoint |-> mb,
   platform  |-> p,
   thresholds |-> t]

\* ------------------------------------------------------------------ Init

\* createDisplay(options) on a host: the refs take the window's size, the
\* platform is taken, the effect runs once, and in a browser onResize is
\* registered as a resize listener.
createDisplay(options, inBrowser, nav, win, ws) ==
  LET parsed == parseDisplayOptions(options) IN
  /\ IN_BROWSER = inBrowser
  /\ navigator = nav
  /\ window = (IF inBrowser THEN win ELSE NoWindow)
  /\ screen = ws
  /\ thresholds = parsed.thresholds
  /\ mobileBreakpoint = parsed.mobileBreakpoint
  /\ height = getClientHeight(inBrowser, win)
  /\ platform = getPlatform(inBrowser, nav)
  /\ width = getClientWidth(inBrowser, win)
  /\ state = DisplayState(getClientWidth(inBrowser, win), getClientHeight(inBrowser, win),
                          parsed.thresholds, parsed.mobileBreakpoint,
                          getPlatform(inBrowser, nav))
  /\ dirty = FALSE
  /\ listeners = (IF inBrowser THEN {"onResize"} ELSE {})
  /\ disposed = FALSE
  /\ progress = "created"

Init ==
  \E options \in GridOptions, inBrowser \in BOOLEAN, nav \in UserAgents,
     win \in Windows(GridWidths) :
    createDisplay(options, inBrowser, nav, win, GridWidths)

InitDocs ==
  \E options \in DocOptions, inBrowser \in BOOLEAN, nav \in UserAgents,
     win \in Windows(DocWidths) :
    createDisplay(options, inBrowser, nav, win, DocWidths)

\* --------------------------------------------------------------- actions

\* onResize that re-reads the width only.
onResizeWidthOnly ==
  /\ height' = height
  /\ width' = getClientWidth(IN_BROWSER, window')
  /\ dirty' = (dirty \/ width' # width)
  /\ progress' = (IF progress = "created" THEN "notified" ELSE progress)

\* function onResize: both refs are set from the window as it is now; a ref
\* whose value changes queues the effect that read it.
onResize ==
  /\ height' = getClientHeight(IN_BROWSER, window')
  /\ width' = getClientWidth(IN_BROWSER, window')
  /\ dirty' = (dirty \/ height' # height \/ width' # width)
  /\ progress' = (IF progress = "created" THEN "notified" ELSE progress)

\* The host resizes its window and dispatches 'resize' to the listeners.
Resize ==
  /\ IN_BROWSER
  /\ \E win \in Windows(screen) : window' = win
  /\ IF "onResize" \in listeners
     THEN onResize
     ELSE UNCHANGED <<height, width, dirty, progress>>
  /\ UNCHANGED <<IN_BROWSER, navigator, screen, thresholds, mobileBreakpoint,
                 platform, state, listeners, disposed>>

\* An effect that assigns the flags and leaves the name as it was.
FlushStaleName ==
  /\ dirty
  /\ state' = [DisplayState(width, height, thresholds, mobileBreakpoint, platform)
                 EXCEPT !.name = state.name]
  /\ dirty' = FALSE
  /\ progress' = "recomputed"
  /\ UNCHANGED <<IN_BROWSER, navigator, window, screen, thresholds, mobileBreakpoint,
                 height, width, platform, listeners, disposed>>

\* The queued effect runs: every field of state is assigned from the refs.
Flush ==
  /\ dirty
  /\ state' = DisplayState(width, height, thresholds, mobileBreakpoint, platform)
  /\ dirty' = FALSE
  /\ progress' = "recomputed"
  /\ UNCHANGED <<IN_BROWSER, navigator, window, screen, thresholds, mobileBreakpoint,
                 height, width, platform, listeners, disposed>>

\* The owner releases the display (the app is unmounted, the refs dropped).
\* createDisplay returns toRefs(state) and nothing to tear it down with: no
\* listener is removed and the effect is not stopped.
Dispose ==
  /\ ~disposed
  /\ disposed' = TRUE
  /\ UNCHANGED <<IN_BROWSER, navigator, window, screen, thresholds, mobileBreakpoint,
                 height, width, platform, state, dirty, listeners, progress>>

Next == Resize \/ Flush \/ Dispose

Spec == Init /\ [][Next]_vars

SpecDocs == InitDocs /\ [][Next]_vars

\* ------------------------------------------------------------ properties

Buckets == {"xs", "sm", "md", "lg", "xl"}

\* thresholds.xs <= sm <= md <= lg
Ascending(t) == t.xs <= t.sm /\ t.sm <= t.md /\ t.md <= t.lg

\* The bucket flags of s that are true.
TrueBuckets(s) == {b \in Buckets : s[b]}

\* The options are the defaults: thresholds 600, 960, 1280, 1920 and
\* mobileBreakpoint "md".
DefaultsInUse ==
  /\ thresholds = defaultDisplayOptions.thresholds
  /\ mobileBreakpoint = defaultDisplayOptions.mobileBreakpoint

\* C1: with ascending thresholds, exactly one of the five bucket flags of
\* the display state is true, in the initial state and after every resize.
C1_ExactlyOneBucket ==
  Ascending(thresholds) => Cardinality(TrueBuckets(state)) = 1

\* C1 witness: ascending, not all equal thresholds; a resize has been
\* recomputed and the one true flag is md.
C1_Witness ==
  /\ Ascending(thresholds)
  /\ thresholds.xs < thresholds.lg
  /\ progress = "recomputed"
  /\ ~dirty
  /\ TrueBuckets(state) = {"md"}

\* C2: in every state whose bucket flags have a single true one, name is
\* that bucket: name = b exactly when the flag b is true, for each of the
\* five buckets.
C2_NameMatchesFlag ==
  Cardinality(TrueBuckets(state)) = 1 =>
    \A b \in Buckets : (state.name = b) <=> state[b]

\* C2 witness: ascending thresholds, a recomputed state named "xl" whose
\* only true flag is xl.
C2_Witness ==
  /\ Ascending(thresholds)
  /\ progress = "recomputed"
  /\ ~dirty
  /\ state.name = "xl"
  /\ TrueBuckets(state) = {"xl"}
  /\ state.width > 0

\* The six cumulative flags of the state equal their formulas over the
\* state's bucket flags.
CumulativeEquations ==
  /\ state.smAndDown = ~(state.md \/ state.lg \/ state.xl)
  /\ state.smAndUp = ~state.xs
  /\ state.mdAndDown = ~(state.lg \/ state.xl)
  /\ state.mdAndUp = ~(state.xs \/ state.sm)
  /\ state.lgAndDown = ~state.xl
  /\ state.lgAndUp = ~(state.xs \/ state.sm \/ state.md)

\* C3 as claimed: the cumulative flags equal their formulas, and whenever
\* sm, md or lg is true, both its AndUp and its AndDown flag are true.
C3_CumulativeBothWays ==
  /\ CumulativeEquations
  /\ state.sm => (state.smAndUp /\ state.smAndDown)
  /\ state.md => (state.mdAndUp /\ state.mdAndDown)
  /\ state.lg => (state.lgAndUp /\ state.lgAndDown)

\* C3 amended: the cumulative flags equal their formulas; a true sm, md or
\* lg has its AndUp flag true, a true lg has lgAndDown true, and with
\* ascending thresholds a true sm or md has its AndDown flag true.
C3_CumulativeConsistent ==
  /\ CumulativeEquations
  /\ state.sm => state.smAndUp
  /\ state.md => state.mdAndUp
  /\ state.lg => (state.lgAndUp /\ state.lgAndDown)
  /\ Ascending(thresholds) =>
       /\ state.sm => state.smAndDown
       /\ state.md => state.mdAndDown

\* C3 witness: a recomputed state with sm true between smAndUp and
\* smAndDown, under ascending thresholds.
C3_Witness ==
  /\ Ascending(thresholds)
  /\ progress = "recomputed"
  /\ ~dirty
  /\ state.sm /\ state.smAndUp /\ state.smAndDown
  /\ ~state.mdAndUp

\* C4 as claimed: in a browser, mobile is true exactly when the width is
\* below the cutoff (the number, or the threshold named), whatever the
\* user agent.
C4_MobileIsBelowCutoff ==
  IN_BROWSER =>
    (state.mobile <=> state.width < breakpointValue(mobileBreakpoint, thresholds))

\* C5: in a browser, once the queued effect has run, width and height of the
\* state are the window's size as onResize last read it, and the whole state
\* is the recomputation from that size.
C5_StateFollowsWindow ==
  (IN_BROWSER /\ ~dirty) =>
    /\ state.width = getClientWidth(IN_BROWSER, window)
    /\ state.height = getClientHeight(IN_BROWSER, window)
    /\ state = DisplayState(getClientWidth(IN_BROWSER, window),
                            getClientHeight(IN_BROWSER, window),
                            thresholds, mobileBreakpoint, platform)

\* C5 witness: resizes have been handled and recomputed; the window is wider
\* than its client area and the state holds its width and height.
C5_Witness ==
  /\ IN_BROWSER
  /\ progress = "recomputed"
  /\ ~dirty
  /\ window.clientWidth < window.innerWidth
  /\ state.width = window.innerWidth
  /\ state.height = 1
  /\ state.name = "xl"

C8_HeadlessAndroidIsMobile ==
  ~IN_BROWSER =>
    /\ state.width = 0 /\ state.height = 0
    /\ state.mobile <=> (platform.android \/ platform.ios \/ platform.opera)
    /\ match(navigator, {"android"}) => state.mobile

\* C9 as claimed: once the display is disposed (and with that its resize
\* listener removed), no later step changes any field of its state.
C9_DisposedIsQuiet ==
  [][disposed => state' = state]_vars

\* C10: in every state all derived fields are the recomputation from the
\* state's own width and height, and a step that changes the state gives it
\* the width and the height of one reading of the window.
C10_Consistent ==
  /\ [](state = DisplayState(state.width, state.height,
                             thresholds, mobileBreakpoint, platform))
  /\ [][state' # state =>
          /\ state'.width = getClientWidth(IN_BROWSER, window')
          /\ state'.height = getClientHeight(IN_BROWSER, window')]_vars

\* C10 witness: between a resize and its recomputation, the state still holds
\* the earlier reading whole while the refs hold the new one.
C10_Witness ==
  /\ progress = "recomputed"
  /\ dirty
  /\ state.width # width /\ state.height # height
  /\ state = DisplayState(state.width, state.height,
                          thresholds, mobileBreakpoint, platform)

\* C11: for every thresholds record, ascending or not, and every width, at
\* least one bucket flag is true; xs, sm, md and lg exclude one another; lg
\* and xl are never true together; and when two flags are true they are xl
\* and one of xs, sm, md, with name that lower bucket and not "xl".
C11_PartitionNeverEmpty ==
  /\ TrueBuckets(state) # {}
  /\ Cardinality(TrueBuckets(state) \cap Breakpoints) <= 1
  /\ ~(state.lg /\ state.xl)
  /\ Cardinality(TrueBuckets(state)) > 1 =>
       \E b \in {"xs", "sm", "md"} :
         /\ TrueBuckets(state) = {b, "xl"}
         /\ state.name = b

\* C11 witness: thresholds that do not ascend, a recomputed state in which md
\* and xl are both true and the name is "md".
C11_Witness ==
  /\ ~Ascending(thresholds)
  /\ progress = "recomputed"
  /\ ~dirty
  /\ TrueBuckets(state) = {"md", "xl"}
  /\ state.name = "md"

====
